---- MODULE Spec2Model ----
(***************************************************************************)
(* SimHash and Super-Bit SimHash engines (src/src/simhash/sim_hash.rs,     *)
(* src/src/simhash/superbit.rs) as a state machine.                        *)
(*                                                                         *)
(* Number representations used throughout:                                 *)
(*   - a u64 is a tuple of 8 bytes, least significant first, and the       *)
(*     wrapping 64-bit operations are computed on the bytes;               *)
(*   - a signature (type S) is a natural number below 2^SigBits;           *)
(*   - an f32 is a fixed-point integer: the value x is held as x * Scale,  *)
(*     products and quotients are rounded toward zero to that grid.        *)
(***************************************************************************)
EXTENDS Integers, Sequences, FiniteSets, TLC

(***************************************************************************)
(* 64-bit words                                                            *)
(***************************************************************************)

\* The eight bytes f(1) .. f(8) as a tuple.
Bytes8(f(_)) == <<f(1), f(2), f(3), f(4), f(5), f(6), f(7), f(8)>>

\* Byte k of word a; the bytes beyond either end read as 0.
ByteAt(a, k) == IF k >= 1 /\ k <= 8 THEN a[k] ELSE 0

\* 2^n for small n.
RECURSIVE Pow2(_)
Pow2(n) == IF n = 0 THEN 1 ELSE 2 * Pow2(n - 1)

\* `n as u64` for a small natural n (n < 2^31).
U64(n) ==
    <<n % 256, (n \div 256) % 256, (n \div 65536) % 256, (n \div 16777216) % 256,
      0, 0, 0, 0>>

\* Bitwise exclusive or of two n-bit naturals.
RECURSIVE XorBits(_, _, _)
XorBits(x, y, n) ==
    IF n = 0 THEN 0
    ELSE (((x % 2) + (y % 2)) % 2) + 2 * XorBits(x \div 2, y \div 2, n - 1)

\* x ^ y for bytes x and y: the table of XorBits.
XorByte == [x \in 0..255 |-> [y \in 0..255 |-> XorBits(x, y, 8)]]

\* a ^ b on u64.
Xor64(a, b) ==
    LET f(i) == XorByte[a[i]][b[i]] IN Bytes8(f)

\* The bytes i..8 of a + b, c the carry into byte i.
RECURSIVE AddFrom(_, _, _, _)
AddFrom(a, b, i, c) ==
    IF i > 8 THEN <<>>
    ELSE LET t == a[i] + b[i] + c
         IN <<t % 256>> \o AddFrom(a, b, i + 1, t \div 256)

\* a.wrapping_add(b)
Add64(a, b) == AddFrom(a, b, 1, 0)

\* !a
Not64(a) ==
    LET f(i) == 255 - a[i] IN Bytes8(f)

\* a.wrapping_sub(b)
Sub64(a, b) == Add64(a, Add64(Not64(b), U64(1)))

\* Sum of the byte products a[i] * b[j] with i + j = k + 1.
RECURSIVE MulColumn(_, _, _, _)
MulColumn(a, b, k, i) ==
    IF i > k THEN 0 ELSE a[i] * b[k + 1 - i] + MulColumn(a, b, k, i + 1)

\* The bytes k..8 of a * b, c the carry into byte k.
RECURSIVE MulFrom(_, _, _, _)
MulFrom(a, b, k, c) ==
    IF k > 8 THEN <<>>
    ELSE LET t == MulColumn(a, b, k, 1) + c
         IN <<t % 256>> \o MulFrom(a, b, k + 1, t \div 256)

\* a.wrapping_mul(b)
Mul64(a, b) == MulFrom(a, b, 1, 0)

\* a >> n (logical), 0 <= n < 64
Shr64(a, n) ==
    LET q == n \div 8
        s == n % 8
        f(i) == ((ByteAt(a, i + q) \div Pow2(s))
                 + ((ByteAt(a, i + q + 1) * Pow2(8 - s)) % 256)) % 256
    IN Bytes8(f)

\* a << n, 0 <= n < 64
Shl64(a, n) ==
    LET q == n \div 8
        s == n % 8
        f(i) == (((ByteAt(a, i - q) * Pow2(s)) % 256)
                 + (ByteAt(a, i - q - 1) \div Pow2(8 - s))) % 256
    IN Bytes8(f)

\* a.rotate_left(n), 0 < n < 64
Rotl64(a, n) ==
    LET hi == Shl64(a, n)
        lo == Shr64(a, 64 - n)
        f(i) == hi[i] + lo[i]
    IN Bytes8(f)

(***************************************************************************)
(* Hash primitives                                                         *)
(***************************************************************************)

\* 0x9E37_79B9_7F4A_7C15
GOLDEN_GAMMA == <<21, 124, 74, 127, 185, 121, 55, 158>>

\* 0xBF58_476D_1CE4_E5B9
SPLITMIX_M1 == <<185, 229, 228, 28, 109, 71, 88, 191>>

\* 0x94D0_49BB_1331_11EB
SPLITMIX_M2 == <<235, 17, 49, 19, 187, 73, 208, 148>>

\* 0x9E37_79B9, the per-block seed multiplier of new
BLOCK_SEED_MUL == <<185, 121, 55, 158, 0, 0, 0, 0>>

\* 0xBF58_476D, mixed into the counter for the second uniform
U2_XOR == <<109, 71, 88, 191, 0, 0, 0, 0>>

\* splitmix64: one step of the SplitMix64 generator.
splitmix64(x0) ==
    LET x  == Add64(x0, GOLDEN_GAMMA)
        z1 == Mul64(Xor64(x, Shr64(x, 30)), SPLITMIX_M1)
        z2 == Mul64(Xor64(z1, Shr64(z1, 27)), SPLITMIX_M2)
    IN Xor64(z2, Shr64(z2, 31))

\* XXH3 constants: PRIME_MX2 and the two words of the default secret that the
\* 8-byte input path reads (secret[8..16] and secret[16..24]).
XXH_PRIME_MX2 == <<37, 223, 152, 30, 101, 28, 178, 159>>
XXH_SECRET_8 == <<124, 1, 129, 44, 247, 33, 173, 28>>
XXH_SECRET_16 == <<222, 212, 109, 233, 131, 144, 151, 219>>

\* XXH3's final mix for 4..8 byte inputs, with len = 8.
XxhRrmxmx(h0) ==
    LET h1 == Xor64(h0, Xor64(Rotl64(h0, 49), Rotl64(h0, 24)))
        h2 == Mul64(h1, XXH_PRIME_MX2)
        h3 == Xor64(h2, Add64(Shr64(h2, 35), U64(8)))
        h4 == Mul64(h3, XXH_PRIME_MX2)
    IN Xor64(h4, Shr64(h4, 28))

\* Xxh3::with_seed(seed), update(&x.to_le_bytes()), finish(): the seeded
\* 64-bit XXH3 of the 8 bytes of x.
Xxh3(seed, x) ==
    LET seedMix == Xor64(seed, <<0, 0, 0, 0, seed[4], seed[3], seed[2], seed[1]>>)
        bitflip == Sub64(Xor64(XXH_SECRET_8, XXH_SECRET_16), seedMix)
        input64 == <<x[5], x[6], x[7], x[8], x[1], x[2], x[3], x[4]>>
    IN XxhRrmxmx(Xor64(input64, bitflip))

(***************************************************************************)
(* f32 on a fixed-point grid                                               *)
(***************************************************************************)

\* Grid resolution: the f32 value x is the integer x * Scale.
Scale == 1000

\* 1e-12, the floor of a column norm: the smallest positive value of the grid.
NormFloor == 1

\* q rounded toward zero, for a divisor d > 0.
TruncDiv(n, d) == IF n >= 0 THEN n \div d ELSE -((-n) \div d)

\* a * b
FMul(a, b) == TruncDiv(a * b, Scale)

\* a / b, b > 0
FDiv(a, b) == TruncDiv(a * Scale, b)

\* The largest s in lo..hi with s * s <= x.
RECURSIVE IsqrtIn(_, _, _)
IsqrtIn(x, lo, hi) ==
    IF lo = hi THEN lo
    ELSE LET mid == (lo + hi + 1) \div 2
         IN IF mid * mid <= x THEN IsqrtIn(x, mid, hi) ELSE IsqrtIn(x, lo, mid - 1)

\* a.sqrt(), a >= 0
FSqrt(a) == IsqrtIn(a * Scale, 0, 46340)

\* a.max(b)
FMax(a, b) == IF a >= b THEN a ELSE b

\* The table interval (0..7) of a uniform u in [0, 1).
Octant(u) == (u * 8) \div Scale

\* (-2.0 * u1.ln()).sqrt(): exactly 0 at u1 = 1.0 (ln 1 = 0), elsewhere its
\* value at the midpoint of u1's interval.
SqrtNeg2Ln(u1) ==
    IF u1 >= Scale THEN 0
    ELSE (<<2355, 1830, 1525, 1286, 1073, 866, 644, 359>>[Octant(u1) + 1] * Scale)
            \div 1000

\* (2.0 * PI * u2).cos(): the value at the midpoint of u2's interval, 1.0 at
\* u2 = 1.0.
Cos2Pi(u2) ==
    IF u2 >= Scale THEN Scale
    ELSE TruncDiv(<<924, 383, -383, -924, -924, -383, 383, 924>>[Octant(u2) + 1] * Scale,
                  1000)

\* (t as f32) == 2^53 for a 53-bit t = v >> 11: an f32 keeps 24 significant
\* bits and rounds to nearest, ties to even, so every t >= 2^53 - 2^28 (the
\* top 25 bits of v all set) converts to 2^53.
CastRoundsToPow53(v) ==
    v[8] = 255 /\ v[7] = 255 /\ v[6] = 255 /\ v[5] >= 128

\* u01: ((v >> 11) as f32 + 0.5) * (1.0 / ((1u64 << 53) as f32)) for the hash
\* v of x. Where the cast gives 2^53 the result is exactly 1.0 (adding 0.5
\* to 2^53 rounds back to 2^53); elsewhere it is v / 2^64 on the grid, taken from the
\* top 10 bits of v.
u01(seed, x) ==
    LET v == Xxh3(seed, x)
        top10 == v[8] * 4 + (v[7] \div 64)
    IN IF CastRoundsToPow53(v) THEN Scale ELSE (top10 * Scale) \div 1024

(***************************************************************************)
(* Orthonormal blocks                                                      *)
(***************************************************************************)

\* A vector held as a tuple, every element evaluated once.
Eager(f) == SubSeq(f, 1, Len(f))

\* mat[i * r + j] of a row-major r x r matrix (the tuple is 1-based).
At(mat, r, i, j) == mat[i * r + j + 1]

\* The cell (i, j) of the random fill; k, the counter, is i * r + j there.
GaussCell(r, seed, i, j) ==
    LET k  == U64(i * r + j)
        u1 == u01(seed, Xor64(Xor64(k, Shl64(U64(i), 16)), U64(j)))
        u2 == u01(seed, Xor64(Mul64(k, GOLDEN_GAMMA), U2_XOR))
        r2 == SqrtNeg2Ln(u1)
    IN FMul(r2, Cos2Pi(u2))

\* The matrix after the fill loop.
GaussFill(r, seed) ==
    Eager([c \in 1..(r * r) |-> GaussCell(r, seed, (c - 1) \div r, (c - 1) % r)])

\* dot of columns j and p: the sum over rows i.. of mat[i*r+j] * mat[i*r+p].
RECURSIVE ColDot(_, _, _, _, _)
ColDot(mat, r, j, p, i) ==
    IF i = r THEN 0
    ELSE FMul(At(mat, r, i, j), At(mat, r, i, p)) + ColDot(mat, r, j, p, i + 1)

\* Column j less its projection on column p.
SubtractProjection(mat, r, j, p) ==
    LET dot == ColDot(mat, r, j, p, 0)
    IN Eager([c \in 1..(r * r) |->
                IF (c - 1) % r = j
                THEN mat[c] - FMul(dot, At(mat, r, (c - 1) \div r, p))
                ELSE mat[c]])

\* The loop over p in p0..j-1.
RECURSIVE SubtractProjections(_, _, _, _)
SubtractProjections(mat, r, j, p) ==
    IF p >= j THEN mat
    ELSE SubtractProjections(SubtractProjection(mat, r, j, p), r, j, p + 1)

\* Column j divided by its norm, the norm floored at 1e-12.
Normalize(mat, r, j) ==
    LET n == FMax(FSqrt(ColDot(mat, r, j, j, 0)), NormFloor)
    IN Eager([c \in 1..(r * r) |->
                IF (c - 1) % r = j THEN FDiv(mat[c], n) ELSE mat[c]])

\* The Gram-Schmidt loop over the columns j0..r-1.
RECURSIVE GramSchmidt(_, _, _)
GramSchmidt(mat, r, j) ==
    IF j >= r THEN mat
    ELSE GramSchmidt(Normalize(SubtractProjections(mat, r, j, 0), r, j), r, j + 1)

\* make_orthonormal_block
make_orthonormal_block(r, seed) == GramSchmidt(GaussFill(r, seed), r, 0)

(***************************************************************************)
(* Bounds of the model                                                     *)
(***************************************************************************)

\* Width in bits of the signature type S (u64 in the source's tests).
SigBits == 3

\* Items fed to a SimHash engine are 1..NItems.
NItems == 3

\* Longest item sequence given to a SimHash signature call.
MaxItems == 3

\* Largest batch given to create_centroid.
MaxBatch == 3

\* Bit-length L of the Super-Bit engines.
SbBits == 4

\* Block sizes tried by SuperBitSimHash::new are 0..MaxR.
MaxR == 4

\* Longest (item, weight) sequence given to a Super-Bit signature call.
MaxSbItems == 2

\* Weights of the weighted SimHash calls (f32 values that are whole numbers).
Weights == {0, 1, 2}

\* Items and weights of the Super-Bit calls.
SbItems == {1, 2}
SbWeights == {0, 1}

\* Keys of the SimHash engine's hasher.
HasherKeys == {0, 1}

\* Seeds given to SuperBitSimHash::new: 0xDEAD_BEEF (the seed of the source's
\* test) and 47873554.
Seeds == <<<<239, 190, 173, 222, 0, 0, 0, 0>>, U64(47873554)>>

\* The threads sharing a Super-Bit engine: one makes the weighted calls, the
\* other the unweighted ones.
Threads == {1, 2}
WeightedCallers == {1}
UnweightedCallers == {2}

\* Every sequence over S of length at most n.
SeqsUpTo(S, n) == UNION {[1..k -> S] : k \in 0..n}

\* The arguments the calls of the model are given.
ItemSeqs == SeqsUpTo(1..NItems, MaxItems)
WeightedSeqs == SeqsUpTo((1..NItems) \X Weights, MaxItems)
Batches == SeqsUpTo(0..(Pow2(SigBits) - 1), MaxBatch)
SbItemSeqs == SeqsUpTo(SbItems, MaxSbItems)
SbWeightedSeqs == SeqsUpTo(SbItems \X SbWeights, MaxSbItems)

(***************************************************************************)
(* The signature type S and the hasher H                                   *)
(***************************************************************************)

\* Bit i of the signature x.
BitOf(x, i) == (x \div Pow2(i)) % 2

\* hash & S::one()
AndOne(x) == x % 2

\* hash >> 1
Shr1(x) == x \div 2

\* signature >> i
ShrSig(x, i) == x \div Pow2(i)

\* result | (S::one() << i), for i < SigBits
OrOneShl(x, i) == IF BitOf(x, i) = 1 THEN x ELSE x + Pow2(i)

\* self.hasher.hash(&item) of a SimHash engine: a keyed hash of the item, of
\* the width of S.
HashS(key, item) == Xxh3(U64(key), U64(item))[1] % Pow2(SigBits)

\* self.hasher.hash(&item) of a Super-Bit engine: a 64-bit hash of the item.
Hash64(key, item) == Xxh3(U64(key), U64(item))

\* HashS and Hash64 of every item the model feeds, each evaluated once.
ItemHashS == [key \in HasherKeys |-> [item \in 1..NItems |-> HashS(key, item)]]
ItemHash64 == [item \in SbItems |-> Hash64(0, item)]

\* [0; L]
ZeroCounts(L) == [i \in 1..L |-> 0]

(***************************************************************************)
(* SimHash                                                                 *)
(***************************************************************************)

\* Faulty variant of BitVote: the signs of the two votes are exchanged.
BitVoteInverted(count, bit, w) == IF bit = 0 THEN count - w ELSE count + w

\* Faulty variant of BitVote: every vote counts 1, whatever its weight.
BitVoteUnitWeight(count, bit, w) == IF bit = 0 THEN count + 1 ELSE count - 1

\* Faulty variant of BitVote: the vote is stored, not added.
BitVoteOverwrite(count, bit, w) == IF bit = 0 THEN w ELSE 0 - w

\* The vote of one hash bit, weight w: +w for a 0 bit, -w for a 1 bit.
BitVote(count, bit, w) == IF bit = 0 THEN count + w ELSE count - w

\* The inner loop over the bit positions i..L-1 for one item's hash: counts
\* is 1-based, counts[i + 1] is the source's counts[i].
RECURSIVE VoteBits(_, _, _, _, _)
VoteBits(counts, hash, w, i, L) ==
    IF i >= L THEN counts
    ELSE VoteBits([counts EXCEPT ![i + 1] = BitVote(counts[i + 1], AndOne(hash), w)],
                  Shr1(hash), w, i + 1, L)

\* create_signature's loop over the items k.. : each hash bit votes +1 / -1.
RECURSIVE VoteItems(_, _, _, _, _)
VoteItems(counts, key, items, k, L) ==
    IF k > Len(items) THEN counts
    ELSE VoteItems(VoteBits(counts, ItemHashS[key][items[k]], 1, 0, L),
                   key, items, k + 1, L)

\* create_signature_weighted's loop over the (item, weight) pairs k.. : each
\* hash bit votes +w / -w.
RECURSIVE VoteWeightedItems(_, _, _, _, _)
VoteWeightedItems(counts, key, iter, k, L) ==
    IF k > Len(iter) THEN counts
    ELSE VoteWeightedItems(VoteBits(counts, ItemHashS[key][iter[k][1]], iter[k][2], 0, L),
                           key, iter, k + 1, L)

\* Faulty variant of Positive: a counter of zero sets its bit too.
NonNegative(count) == count >= 0

\* Whether a counter sets its bit.
Positive(count) == count > 0

\* The threshold loop over i..L-1.
RECURSIVE Threshold(_, _, _, _)
Threshold(counts, result, i, L) ==
    IF i >= L THEN result
    ELSE Threshold(counts,
                   IF Positive(counts[i + 1]) THEN OrOneShl(result, i) ELSE result,
                   i + 1, L)

\* SimHash::create_signature
create_signature(e, items) ==
    Threshold(VoteItems(ZeroCounts(e.L), e.hasher, items, 1, e.L), 0, 0, e.L)

\* SimHash::create_signature_weighted
create_signature_weighted(e, iter) ==
    Threshold(VoteWeightedItems(ZeroCounts(e.L), e.hasher, iter, 1, e.L), 0, 0, e.L)

\* Faulty variant of BitIsSet: the shift is missing.
BitIsSetNoShift(signature, i) == AndOne(signature) = 1

\* signature >> i & S::one() == S::one()
BitIsSet(signature, i) == AndOne(ShrSig(signature, i)) = 1

\* The loop over i..L-1 counting the set bits of one signature.
RECURSIVE CountBits(_, _, _, _)
CountBits(counts, signature, i, L) ==
    IF i >= L THEN counts
    ELSE CountBits(IF BitIsSet(signature, i)
                   THEN [counts EXCEPT ![i + 1] = @ + 1]
                   ELSE counts,
                   signature, i + 1, L)

\* The loop over the signatures k.. of a batch.
RECURSIVE CountSignatures(_, _, _, _)
CountSignatures(counts, signatures, k, L) ==
    IF k > Len(signatures) THEN counts
    ELSE CountSignatures(CountBits(counts, signatures[k], 0, L), signatures, k + 1, L)

\* Faulty variant of Majority: a tie sets the bit.
MajorityOrTie(count, len) == count >= len \div 2

\* counts[i] > len / 2
Majority(count, len) == count > len \div 2

\* The loop over i..L-1 building the centroid.
RECURSIVE CentroidBits(_, _, _, _, _)
CentroidBits(counts, len, centroid, i, L) ==
    IF i >= L THEN centroid
    ELSE CentroidBits(counts, len,
                      IF Majority(counts[i + 1], len) THEN OrOneShl(centroid, i)
                      ELSE centroid,
                      i + 1, L)

\* SimHash::create_centroid
create_centroid(e, signatures) ==
    CentroidBits(CountSignatures(ZeroCounts(e.L), signatures, 1, e.L),
                 Len(signatures), 0, 0, e.L)

(***************************************************************************)
(* Super-Bit                                                               *)
(***************************************************************************)

\* Faulty variant of NewCheck: the remainder is taken before r is tested.
NewCheckRemainderFirst(r, L) ==
    IF r = 0
    THEN "attempt to calculate the remainder with a divisor of zero"
    ELSE (IF L % r = 0 THEN "ok" ELSE "r must divide L")

\* The assertion of new, `r > 0 && L % r == 0`: "ok" or the panic message.
\* The && does not evaluate L % r when r is 0.
NewCheck(r, L) ==
    IF r > 0
    THEN (IF L % r = 0 THEN "ok" ELSE "r must divide L")
    ELSE "r must divide L"

\* m = L / r
BlockCount(r, L) == L \div r

\* seed ^ ((b as u64) * 0x9E37_79B9)
BlockSeed(seed, b) == Xor64(seed, Mul64(U64(b), BLOCK_SEED_MUL))

\* SuperBitSimHash::new: the engine, or the panic of its assertion.
SuperBitNew(hasher, r, seed, L) ==
    IF NewCheck(r, L) # "ok"
    THEN [type |-> "Panic", msg |-> NewCheck(r, L), L |-> L, r |-> r]
    ELSE LET m == BlockCount(r, L)
         IN [type |-> "SuperBit", L |-> L, hasher |-> hasher, r |-> r, m |-> m,
             q_blocks |-> Eager([b \in 1..m |->
                                   make_orthonormal_block(r, BlockSeed(seed, b - 1))]),
             seed |-> seed]

\* self.seed ^ base ^ ((b as u64) << 32) ^ 0x9E37_79B9_7F4A_7C15
SignSeed(seed, base, b) ==
    Xor64(Xor64(Xor64(seed, base), Shl64(U64(b), 32)), GOLDEN_GAMMA)

\* The generator state after n steps of splitmix64 from s.
RECURSIVE SplitmixSteps(_, _)
SplitmixSteps(s, n) == IF n = 0 THEN s ELSE splitmix64(SplitmixSteps(s, n - 1))

\* splitmix64 of every generator state a call of the model passes through,
\* each evaluated once.
Splitmix64Of ==
    LET starts == {SignSeed(Seeds[k], ItemHash64[item], b) :
                      k \in 1..Len(Seeds), item \in SbItems, b \in 0..SbBits}
        states == {SplitmixSteps(s, n) : s \in starts, n \in 0..MaxR}
    IN [s \in states |-> splitmix64(s)]

\* if (s >> 63) == 0 { 1.0 } else { -1.0 }
SignOf(s) == IF Shr64(s, 63) = U64(0) THEN 1 ELSE -1

\* The loop over j..r-1 that fills g (1-based here) from the generator state s.
RECURSIVE FillG(_, _, _, _)
FillG(g, s, j, r) ==
    IF j >= r THEN g
    ELSE LET s1 == Splitmix64Of[s]
         IN FillG([g EXCEPT ![j + 1] = SignOf(s1)], s1, j + 1, r)

\* dot(row, g): the loop over col..r-1.
RECURSIVE RowDot(_, _, _, _, _)
RowDot(qb, g, r, row, col) ==
    IF col >= r THEN 0
    ELSE qb[row * r + col + 1] * g[col + 1] + RowDot(qb, g, r, row, col + 1)

\* Faulty variant of BlockOffset: the stride r is missing.
BlockOffsetNoStride(b, r) == b

\* off = b * self.r
BlockOffset(b, r) == b * r

\* The loop over row..r-1 adding w * acc to counts[off + row].
RECURSIVE Accumulate(_, _, _, _, _, _, _)
Accumulate(counts, qb, g, w, off, r, row) ==
    IF row >= r THEN counts
    ELSE Accumulate([counts EXCEPT ![off + row + 1] = @ + w * RowDot(qb, g, r, row, 0)],
                    qb, g, w, off, r, row + 1)

\* Whether every counts[off + row] of the loop is inside counts (an index
\* outside panics).
InBounds(off, r, L) == \A row \in 0..(r - 1) : off + row < L

\* Faulty variant of SelfAfter: the call advances the engine's seed.
SelfAfterAdvanceSeed(e) == [e EXCEPT !.seed = splitmix64(e.seed)]

\* The engine after a step of a signature call: the call holds `&self`, a
\* shared borrow, and writes no field.
SelfAfter(e) == e

\* `if w == 0.0 { continue; }`
SkipItem(w) == w = 0

(***************************************************************************)
(* State                                                                   *)
(***************************************************************************)

VARIABLES
    engine,   \* the engine: not yet built, a SimHash, a SuperBitSimHash, or the
              \* panic of a failed construction
    sim,      \* the last SimHash call: its name, its argument and what it returned
    calls     \* per thread, the Super-Bit signature call it is in

vars == <<engine, sim, calls>>

NoEngine == [type |-> "None"]

NoCall ==
    [pc |-> "idle", iter |-> <<>>, idx |-> 0, base |-> U64(0), b |-> 0,
     g |-> <<>>, counts |-> <<>>, out |-> 0]

NoResult == [op |-> "none", input |-> <<>>, out |-> 0]

Init ==
    /\ engine = NoEngine
    /\ sim = NoResult
    /\ calls = [t \in Threads |-> NoCall]

(***************************************************************************)
(* SimHash actions                                                         *)
(***************************************************************************)

\* SimHash::<H, S, L>::new(hasher)
SimHashNew ==
    /\ engine.type = "None"
    /\ \E hasher \in HasherKeys, L \in 0..SigBits :
          engine' = [type |-> "SimHash", L |-> L, hasher |-> hasher]
    /\ UNCHANGED <<sim, calls>>

\* create_signature(items), for every item sequence of the model
CreateSignature ==
    /\ engine.type = "SimHash"
    /\ sim.op = "none"
    /\ \E items \in ItemSeqs :
          sim' = [op |-> "create_signature", input |-> items,
                  out |-> create_signature(engine, items)]
    /\ UNCHANGED <<engine, calls>>

\* create_signature_weighted(iter), for every weighted sequence of the model
CreateSignatureWeighted ==
    /\ engine.type = "SimHash"
    /\ sim.op = "none"
    /\ \E iter \in WeightedSeqs :
          sim' = [op |-> "create_signature_weighted", input |-> iter,
                  out |-> create_signature_weighted(engine, iter)]
    /\ UNCHANGED <<engine, calls>>

\* create_centroid(signatures), for every batch of the model
CreateCentroid ==
    /\ engine.type = "SimHash"
    /\ sim.op = "none"
    /\ \E signatures \in Batches :
          sim' = [op |-> "create_centroid", input |-> signatures,
                  out |-> create_centroid(engine, signatures)]
    /\ UNCHANGED <<engine, calls>>

\* The caller is done with the value the last call returned.
TakeResult ==
    /\ sim.op # "none"
    /\ sim' = NoResult
    /\ UNCHANGED <<engine, calls>>

NextSimHash ==
    \/ TakeResult
    \/ SimHashNew
    \/ CreateSignature
    \/ CreateSignatureWeighted
    \/ CreateCentroid

(***************************************************************************)
(* Super-Bit actions                                                       *)
(***************************************************************************)

\* SuperBitNew for every (r, seed) the model tries, each evaluated once.
BuiltEngines ==
    [r \in 0..MaxR |-> [k \in 1..Len(Seeds) |-> SuperBitNew(0, r, Seeds[k], SbBits)]]

\* SuperBitSimHash::<H, S, L>::new(hasher, r, seed), seed the k-th of Seeds
New ==
    /\ engine.type = "None"
    /\ \E r \in 0..MaxR, k \in 1..Len(Seeds) : engine' = BuiltEngines[r][k]
    /\ UNCHANGED <<sim, calls>>

\* The state of a call on entry: counts and g zeroed.
EnterCall(e, iter) ==
    [pc |-> "iter", iter |-> iter, idx |-> 1, base |-> U64(0), b |-> 0,
     g |-> ZeroCounts(e.r), counts |-> ZeroCounts(e.L), out |-> 0]

\* Thread t calls create_signature_weighted(iter).
BeginWeighted(t) ==
    /\ engine.type = "SuperBit"
    /\ calls[t].pc = "idle"
    /\ \E iter \in SbWeightedSeqs :
          calls' = [calls EXCEPT ![t] = EnterCall(engine, iter)]
    /\ UNCHANGED <<engine, sim>>

\* Thread t calls create_signature(items): the weighted call with every
\* weight 1.0.
BeginUnweighted(t) ==
    /\ engine.type = "SuperBit"
    /\ calls[t].pc = "idle"
    /\ \E items \in SbItemSeqs :
          calls' = [calls EXCEPT ![t] =
                       EnterCall(engine, [k \in 1..Len(items) |-> <<items[k], 1>>])]
    /\ UNCHANGED <<engine, sim>>

\* The call's record once it has returned out: the locals are gone.
Returned(c, out) ==
    [NoCall EXCEPT !.pc = "done", !.iter = c.iter, !.out = out]

\* Top of the loop over the items: the end of the iteration (threshold and
\* return), a skipped item, or the base hash of the next item.
NextItem(t) ==
    LET c == calls[t] IN
    /\ c.pc = "iter"
    /\ calls' = [calls EXCEPT ![t] =
            IF c.idx > Len(c.iter)
            THEN Returned(c, Threshold(c.counts, 0, 0, engine.L))
            ELSE IF SkipItem(c.iter[c.idx][2]) \/ engine.m = 0
            THEN [c EXCEPT !.idx = c.idx + 1]
            ELSE [c EXCEPT !.pc = "block", !.b = 0,
                           !.base = ItemHash64[c.iter[c.idx][1]]]]
    /\ engine' = SelfAfter(engine)
    /\ UNCHANGED sim

\* One pass of the loop over the blocks: fill g, add Q_b * g into counts.
Block(t) ==
    LET c   == calls[t]
        w   == c.iter[c.idx][2]
        g   == FillG(c.g, SignSeed(engine.seed, c.base, c.b), 0, engine.r)
        off == BlockOffset(c.b, engine.r)
    IN
    /\ c.pc = "block"
    /\ calls' = [calls EXCEPT ![t] =
            IF ~InBounds(off, engine.r, engine.L)
            THEN [c EXCEPT !.pc = "panic", !.g = g]
            ELSE [c EXCEPT
                    !.g = g,
                    !.counts = Accumulate(c.counts, engine.q_blocks[c.b + 1], g, w,
                                          off, engine.r, 0),
                    !.b = c.b + 1,
                    !.pc = IF c.b + 1 < engine.m THEN "block" ELSE "iter",
                    !.idx = IF c.b + 1 < engine.m THEN c.idx ELSE c.idx + 1]]
    /\ engine' = SelfAfter(engine)
    /\ UNCHANGED sim

\* The caller of thread t is done with the signature its call returned.
Return(t) ==
    /\ calls[t].pc = "done"
    /\ calls' = [calls EXCEPT ![t] = NoCall]
    /\ UNCHANGED <<engine, sim>>

NextSuperBit ==
    \/ New
    \/ \E t \in WeightedCallers : BeginWeighted(t)
    \/ \E t \in UnweightedCallers : BeginUnweighted(t)
    \/ \E t \in Threads : NextItem(t)
    \/ \E t \in Threads : Block(t)
    \/ \E t \in Threads : Return(t)

Next == NextSimHash \/ NextSuperBit

Spec == Init /\ [][Next]_vars

SpecSimHash == Init /\ [][NextSimHash]_vars

SpecSuperBit == Init /\ [][NextSuperBit]_vars
(***************************************************************************)
(* Properties                                                              *)
(***************************************************************************)

\* The (item, weight) pairs of iter whose weight is not zero, in order.
DropZero(iter) == SelectSeq(iter, LAMBDA p : p[2] # 0)

\* Whether every weight of iter is zero (an empty iter included).
AllZeroWeights(iter) == \A k \in 1..Len(iter) : iter[k][2] = 0

\* Every reordering of a sequence.
Reorderings(seq) ==
    LET n == Len(seq)
        perms == {p \in [1..n -> 1..n] : \A a, b \in 1..n : a # b => p[a] # p[b]}
    IN {[k \in 1..n |-> seq[p[k]]] : p \in perms}

\* How many items of the last create_signature call hash to bit value v at
\* position i.
Votes(i, v) ==
    Cardinality({k \in 1..Len(sim.input) :
                    BitOf(ItemHashS[engine.hasher][sim.input[k]], i) = v})

\* How many signatures of the last create_centroid call have bit i set.
SetIn(i) == Cardinality({k \in 1..Len(sim.input) : BitOf(sim.input[k], i) = 1})

\* C1: create_signature sets output bit i, for every i in 0..L-1, exactly
\* when strictly more of the items' hashes have bit i (the i-th least
\* significant) equal to 0 than equal to 1.
C1_BitVoting ==
    sim.op = "create_signature" =>
        \A i \in 0..(engine.L - 1) :
            (BitOf(sim.out, i) = 1) <=> (Votes(i, 0) > Votes(i, 1))

\* A signature call over several items in which one bit is won by the 0
\* votes and set, and another bit is tied and left clear.
C1_Witness ==
    /\ sim.op = "create_signature"
    /\ Len(sim.input) >= 2
    /\ \E i \in 0..(engine.L - 1) : Votes(i, 0) > Votes(i, 1) /\ BitOf(sim.out, i) = 1
    /\ \E i \in 0..(engine.L - 1) : Votes(i, 0) = Votes(i, 1) /\ BitOf(sim.out, i) = 0

\* C2: create_centroid sets bit i, for every i in 0..L-1, exactly when the
\* number of signatures of the batch with bit i set exceeds floor(n / 2); a
\* bit set in exactly half of them is not set.
C2_StrictMajority ==
    sim.op = "create_centroid" =>
        \A i \in 0..(engine.L - 1) :
            (BitOf(sim.out, i) = 1) <=> (SetIn(i) > Len(sim.input) \div 2)

\* A batch of two in which one bit is tied and another is set in both.
C2_Witness ==
    /\ sim.op = "create_centroid"
    /\ Len(sim.input) = 2
    /\ \E i \in 0..(engine.L - 1) : SetIn(i) = 1 /\ BitOf(sim.out, i) = 0
    /\ \E i \in 0..(engine.L - 1) : SetIn(i) = 2 /\ BitOf(sim.out, i) = 1

\* C3 as claimed: create_centroid of a batch of one signature s returns s,
\* for every value s of S and every L.
C3_SingletonUnchanged ==
    (sim.op = "create_centroid" /\ Len(sim.input) = 1) => sim.out = sim.input[1]

\* C3 as amended: create_centroid of a batch of one signature s returns the
\* low L bits of s, so it returns s itself exactly when s has no bit set at a
\* position >= L.
C3_SingletonLowBits ==
    (sim.op = "create_centroid" /\ Len(sim.input) = 1) =>
        /\ sim.out = sim.input[1] % Pow2(engine.L)
        /\ (sim.out = sim.input[1]) <=> (sim.input[1] < Pow2(engine.L))

\* A batch of one signature with bits both below and above L.
C3_Witness ==
    /\ sim.op = "create_centroid"
    /\ Len(sim.input) = 1
    /\ sim.input[1] >= Pow2(engine.L)
    /\ sim.out > 0

\* C7: the signature of every reordering of the items equals the signature
\* create_signature returned.
C7_OrderInvariant ==
    sim.op = "create_signature" =>
        \A items \in Reorderings(sim.input) : create_signature(engine, items) = sim.out

\* A call over three items, not all the same, that sets some bit.
C7_Witness ==
    /\ sim.op = "create_signature"
    /\ Len(sim.input) = 3
    /\ sim.input[1] # sim.input[2]
    /\ ItemHashS[engine.hasher][sim.input[1]] # ItemHashS[engine.hasher][sim.input[3]]
    /\ sim.out > 0

Abs(x) == IF x < 0 THEN 0 - x ELSE x

\* The tolerance of the orthonormality test: 0.05.
OrthoTol == Scale \div 20

\* Whether the columns of the r x r block qb are orthonormal within OrthoTol:
\* every column has norm 1 and every two columns have dot product 0.
Orthonormal(qb, r) ==
    \A j, p \in 0..(r - 1) :
        Abs(ColDot(qb, r, j, p, 0) - (IF j = p THEN Scale ELSE 0)) <= OrthoTol

\* The index range of block b in counts.
BlockRange(b, r) == (b * r)..(b * r + r - 1)

\* C4: new(hasher, r, seed) panics with "r must divide L" exactly when r is 0
\* or L is not a multiple of r; otherwise the engine has m = L / r blocks,
\* m * r = L, and each block holds r * r entries.
C4_NewRequiresDivisor ==
    /\ engine.type = "Panic" =>
          /\ engine.r = 0 \/ engine.L % engine.r # 0
          /\ engine.msg = "r must divide L"
    /\ engine.type = "SuperBit" =>
          /\ engine.r > 0
          /\ engine.L % engine.r = 0
          /\ engine.m = engine.L \div engine.r
          /\ engine.m * engine.r = engine.L
          /\ Len(engine.q_blocks) = engine.m
          /\ \A b \in 1..engine.m : Len(engine.q_blocks[b]) = engine.r * engine.r

\* new was called with r = 0 and panicked.
C4_Witness == engine.type = "Panic" /\ engine.r = 0 /\ engine.L > 0

\* C9: every block of a constructed engine has orthonormal columns, for
\* every r >= 1 and every seed.
C9_BlocksOrthonormal ==
    engine.type = "SuperBit" =>
        \A b \in 1..engine.m : Orthonormal(engine.q_blocks[b], engine.r)

\* The calls that have returned.
Done(t) == calls[t].pc = "done"

\* C5: a zero-weight item contributes nothing: the weighted signature of an
\* iterator equals that of the iterator with its zero-weight items removed,
\* for both engines.
C5_ZeroWeightIgnored ==
    /\ sim.op = "create_signature_weighted" =>
          sim.out = create_signature_weighted(engine, DropZero(sim.input))
    /\ \A t, u \in Threads :
          (Done(t) /\ Done(u) /\ DropZero(calls[t].iter) = DropZero(calls[u].iter))
              => calls[t].out = calls[u].out

\* Two Super-Bit calls have returned a signature with a bit set; their
\* iterators differ only in zero-weight items.
C5_Witness ==
    \E t, u \in Threads :
        /\ Done(t) /\ Done(u)
        /\ calls[t].iter # calls[u].iter
        /\ Len(calls[t].iter) > Len(DropZero(calls[t].iter))
        /\ DropZero(calls[t].iter) = DropZero(calls[u].iter)
        /\ calls[t].out > 0

\* C6: degenerate inputs return the all-zero signature and never panic: an
\* empty iterator or one whose weights are all zero, for both engines, and an
\* empty batch for create_centroid.
C6_DegenerateInputs ==
    /\ (sim.op # "none" /\ sim.input = <<>>) => sim.out = 0
    /\ (sim.op = "create_signature_weighted" /\ AllZeroWeights(sim.input)) => sim.out = 0
    /\ \A t \in Threads :
          AllZeroWeights(calls[t].iter) =>
              /\ calls[t].pc # "panic"
              /\ Done(t) => calls[t].out = 0

\* A weighted SimHash call over two items of weight zero has returned.
C6_Witness ==
    /\ sim.op = "create_signature_weighted"
    /\ Len(sim.input) = 2
    /\ AllZeroWeights(sim.input)
    /\ engine.L = SigBits
    /\ sim.out = 0

\* Whether e is the engine new builds from e's own r and seed.
Rebuilt(e) == \E k \in 1..Len(Seeds) : Seeds[k] = e.seed /\ e = BuiltEngines[e.r][k]

\* C8: on a shared engine, calls with the same input return the same
\* signature whatever ran before or alongside; no call changes the engine;
\* and the engine equals the one new builds again from the same r and seed.
C8_Deterministic ==
    /\ [](\A t, u \in Threads :
            (Done(t) /\ Done(u) /\ calls[t].iter = calls[u].iter)
                => calls[t].out = calls[u].out)
    /\ [](engine.type = "SuperBit" => Rebuilt(engine))
    /\ [][engine.type = "SuperBit" => engine' = engine]_vars

\* Two threads have returned from calls with the same two-item input, with a
\* bit set.
C8_Witness ==
    /\ Done(1) /\ Done(2)
    /\ calls[1].iter = calls[2].iter
    /\ Len(DropZero(calls[1].iter)) = 2
    /\ calls[1].out > 0

\* A pass of the block loop of thread t: it is at a block and its call moves.
BlockStep(t) == calls[t].pc = "block" /\ calls'[t] # calls[t]

\* C10: for an item of non-zero weight, block b adds only to the counters
\* b*r .. b*r + r - 1; the ranges of the m blocks partition 0..L-1, so no
\* index is outside counts; and g, refilled from the block's generator,
\* holds nothing of the block before.
C10_BlockRanges ==
    /\ [][\A t \in Threads :
            BlockStep(t) =>
                /\ Len(calls'[t].counts) = engine.L
                /\ \A i \in 0..(engine.L - 1) :
                      i \notin BlockRange(calls[t].b, engine.r)
                          => calls'[t].counts[i + 1] = calls[t].counts[i + 1]]_vars
    /\ [](\A t \in Threads : calls[t].pc # "panic")
    /\ [](engine.type = "SuperBit" =>
            \A i \in 0..(engine.L - 1) :
                Cardinality({b \in 0..(engine.m - 1) : i \in BlockRange(b, engine.r)}) = 1)
    /\ [](\A t \in Threads :
            (calls[t].pc = "block" /\ calls[t].b >= 1) =>
                calls[t].g = FillG(ZeroCounts(engine.r),
                                   SignSeed(engine.seed, calls[t].base, calls[t].b - 1),
                                   0, engine.r))

\* A call is past block 0 of an engine of several blocks of several rows,
\* and block 0 has moved one of its counters.
C10_Witness ==
    \E t \in Threads :
        /\ calls[t].pc = "block"
        /\ calls[t].b >= 1
        /\ engine.r >= 2
        /\ \E i \in BlockRange(0, engine.r) : calls[t].counts[i + 1] # 0
        /\ \A i \in BlockRange(1, engine.r) : calls[t].counts[i + 1] = 0
====
